---- MODULE Spec2Model ----
(***************************************************************************)
(* CardGuard frontend: the built-in CSV parser (parseCSVBuiltIn) of the    *)
(* batch page.                                                             *)
(*                                                                         *)
(* A text is a sequence of symbols.  A symbol is a piece of text that no   *)
(* operation of the parser looks inside: the parser only splits on line    *)
(* breaks and commas, trims white space, removes double quotes at the ends *)
(* of a field and asks whether a field converts to a number.               *)
(***************************************************************************)
EXTENDS Integers, Sequences, FiniteSets, TLC

\* ------------------------------------------------------------------------
\* Bounds
\* ------------------------------------------------------------------------
MaxLen == 5

\* ------------------------------------------------------------------------
\* Symbols
\* ------------------------------------------------------------------------
QUOTE == "\""
COMMA == ","
SPACE == " "
LF == "\n"
CR == "\r"
LETTER == "a"
DIGIT == "1"
INFINITY == "Infinity"

Alphabet == {LETTER, DIGIT, COMMA, QUOTE, SPACE, LF, CR, INFINITY}

\* The white space String.prototype.trim removes.
WhiteSpace == {SPACE, LF, CR}

Texts == UNION {[1..n -> Alphabet] : n \in 0..MaxLen}

\* ------------------------------------------------------------------------
\* JavaScript values stored in a record
\* ------------------------------------------------------------------------
JSString(s) == [type |-> "string", str |-> s, num |-> 0, finite |-> TRUE]
JSNumber(n) == [type |-> "number", str |-> <<>>, num |-> n, finite |-> TRUE]
JSInfinity == [type |-> "number", str |-> <<>>, num |-> 0, finite |-> FALSE]

\* ------------------------------------------------------------------------
\* String primitives
\* ------------------------------------------------------------------------
Last(s) == s[Len(s)]
Front(s) == SubSeq(s, 1, Len(s) - 1)

RECURSIVE TrimStart(_)
TrimStart(s) ==
    IF s # <<>> /\ Head(s) \in WhiteSpace THEN TrimStart(Tail(s)) ELSE s

RECURSIVE TrimEnd(_)
TrimEnd(s) ==
    IF s # <<>> /\ Last(s) \in WhiteSpace THEN TrimEnd(Front(s)) ELSE s

\* String.prototype.trim
Trim(s) == TrimEnd(TrimStart(s))

StartsWithQuote(s) == s # <<>> /\ Head(s) = QUOTE
EndsWithQuote(s) == s # <<>> /\ Last(s) = QUOTE

\* s.slice(1, -1)
Slice1(s) == SubSeq(s, 2, Len(s) - 1)

\* s.includes('"')
IncludesQuote(s) == \E i \in 1..Len(s) : s[i] = QUOTE

\* text.split(/\r?\n/): a line ends at "\n", and a "\r" right before that
\* "\n" belongs to the line break; any other "\r" stays in the line.
RECURSIVE SplitLinesAcc(_, _)
SplitLinesAcc(s, cur) ==
    IF s = <<>> THEN <<cur>>
    ELSE IF Head(s) = LF THEN <<cur>> \o SplitLinesAcc(Tail(s), <<>>)
    ELSE IF Head(s) = CR /\ Len(s) >= 2 /\ s[2] = LF
         THEN <<cur>> \o SplitLinesAcc(Tail(Tail(s)), <<>>)
    ELSE SplitLinesAcc(Tail(s), Append(cur, Head(s)))

SplitLines(s) == SplitLinesAcc(s, <<>>)

\* line.split(",")
RECURSIVE SplitCommaAcc(_, _)
SplitCommaAcc(s, cur) ==
    IF s = <<>> THEN <<cur>>
    ELSE IF Head(s) = COMMA THEN <<cur>> \o SplitCommaAcc(Tail(s), <<>>)
    ELSE SplitCommaAcc(Tail(s), Append(cur, Head(s)))

SplitComma(s) == SplitCommaAcc(s, <<>>)

\* s.replace(/^"|"$/g, ""): a double quote at the start is removed, and so
\* is a double quote at the end, each whether or not the other is there.
StripQuotes(s) ==
    LET a == IF StartsWithQuote(s) THEN Tail(s) ELSE s
    IN  IF EndsWithQuote(a) THEN Front(a) ELSE a

\* ------------------------------------------------------------------------
\* Number conversion (ECMAScript StringToNumber, on this alphabet)
\* ------------------------------------------------------------------------
RECURSIVE DecimalValue(_)
DecimalValue(s) ==
    IF s = <<>> THEN 0 ELSE 10 * DecimalValue(Front(s)) + 1

AllDigits(s) == s # <<>> /\ \A i \in 1..Len(s) : s[i] = DIGIT

\* isNaN(raw) for a string raw: white space around the literal is skipped,
\* the empty literal is 0, "Infinity" is a literal, digits are a literal.
IsNaN(raw) ==
    LET t == Trim(raw)
    IN  ~(t = <<>> \/ t = <<INFINITY>> \/ AllDigits(t))

\* Number(raw), for raw with ~IsNaN(raw)
ToNumber(raw) ==
    LET t == Trim(raw)
    IN  IF t = <<INFINITY>> THEN JSInfinity ELSE JSNumber(DecimalValue(t))

\* raw !== "" && !isNaN(raw) ? Number(raw) : raw
TypedValue(raw) ==
    IF raw # <<>> /\ ~IsNaN(raw) THEN ToNumber(raw) ELSE JSString(raw)

\* ------------------------------------------------------------------------
\* parseCSVBuiltIn
\* ------------------------------------------------------------------------
RECURSIVE FilterNonBlank(_)
FilterNonBlank(ls) ==
    IF ls = <<>> THEN <<>>
    ELSE IF Trim(Head(ls)) # <<>> THEN <<Head(ls)>> \o FilterNonBlank(Tail(ls))
    ELSE FilterNonBlank(Tail(ls))

\* text.trim().split(/\r?\n/) with the filter of blank lines left out
LinesUnfiltered(t) == SplitLines(Trim(t))

\* text.trim().split(/\r?\n/).filter(l => l.trim())
Lines(t) == FilterNonBlank(SplitLines(Trim(t)))

FirstLine(t) == Trim(Lines(t)[1])

\* the detection with the test for inner quotes left out
IsQuotedRowOuterOnly(firstLine) ==
    StartsWithQuote(firstLine) /\ EndsWithQuote(firstLine)

\* the detection never finding the quoted-row format
IsQuotedRowNever(firstLine) == FALSE

IsQuotedRow(firstLine) ==
    /\ StartsWithQuote(firstLine)
    /\ EndsWithQuote(firstLine)
    /\ ~IncludesQuote(Slice1(firstLine))

\* lines.map(l => { t = l.trim(); return quoted both ends ? t.slice(1,-1) : t })
StripLine(l) ==
    LET t == Trim(l)
    IN  IF StartsWithQuote(t) /\ EndsWithQuote(t) THEN Slice1(t) ELSE t

Stripped(lines) == [i \in 1..Len(lines) |-> StripLine(lines[i])]

HeadersQuoted(lines) ==
    LET f == SplitComma(Stripped(lines)[1])
    IN  [i \in 1..Len(f) |-> Trim(f[i])]

HeadersStandard(firstLine) ==
    LET f == SplitComma(firstLine)
    IN  [i \in 1..Len(f) |-> StripQuotes(Trim(f[i]))]

Headers(lines) ==
    IF IsQuotedRow(Trim(lines[1])) THEN HeadersQuoted(lines)
    ELSE HeadersStandard(Trim(lines[1]))

DataLines(lines) ==
    IF IsQuotedRow(Trim(lines[1])) THEN Tail(Stripped(lines))
    ELSE Tail(lines)

\* line.split(",").map(v => v.trim().replace(/^"|"$/g, ""))
Vals(line) ==
    LET f == SplitComma(line)
    IN  [i \in 1..Len(f) |-> StripQuotes(Trim(f[i]))]

\* the loop running over the values instead of the headers
RECURSIVE BuildObjShort(_, _, _, _)
BuildObjShort(headers, vals, i, obj) ==
    IF i > Len(headers) \/ i > Len(vals) THEN obj
    ELSE BuildObjShort(headers, vals, i + 1,
                       [k \in (DOMAIN obj) \cup {headers[i]} |->
                           IF k = headers[i] THEN TypedValue(vals[i]) ELSE obj[k]])

\* the loop without the default of a missing field: obj[h] = undefined
JSUndefined == [type |-> "undefined", str |-> <<>>, num |-> 0, finite |-> TRUE]

RECURSIVE BuildObjNoDefault(_, _, _, _)
BuildObjNoDefault(headers, vals, i, obj) ==
    IF i > Len(headers) THEN obj
    ELSE BuildObjNoDefault(headers, vals, i + 1,
                           [k \in (DOMAIN obj) \cup {headers[i]} |->
                               IF k = headers[i]
                               THEN IF i <= Len(vals) THEN TypedValue(vals[i])
                                    ELSE JSUndefined
                               ELSE obj[k]])

\* headers.forEach((h, i) => { raw = vals[i] ?? ""; obj[h] = typed(raw) }):
\* the assignments run in header order, a later one to the same key wins.
RECURSIVE BuildObj(_, _, _, _)
BuildObj(headers, vals, i, obj) ==
    IF i > Len(headers) THEN obj
    ELSE LET h == headers[i]
             raw == IF i <= Len(vals) THEN vals[i] ELSE <<>>
             v == TypedValue(raw)
         IN  BuildObj(headers, vals, i + 1,
                      [k \in (DOMAIN obj) \cup {h} |->
                          IF k = h THEN v ELSE obj[k]])

EmptyObj == [k \in {} |-> JSString(<<>>)]

Record(headers, line) == BuildObj(headers, Vals(line), 1, EmptyObj)

\* the filter keeping every record
KeepAll(r) == TRUE

\* the filter testing the values for truth: some(v => v)
KeepTruthy(r) == \E k \in DOMAIN r : r[k] # JSString(<<>>) /\ r[k] # JSNumber(0)

\* Object.values(r).some(v => v !== "" && v !== null)
Keep(r) == \E k \in DOMAIN r : r[k] # JSString(<<>>)

\* the records collected in reverse
RECURSIVE RowsReversed(_, _)
RowsReversed(headers, dataLines) ==
    IF dataLines = <<>> THEN <<>>
    ELSE LET r == Record(headers, Head(dataLines))
         IN  RowsReversed(headers, Tail(dataLines))
                 \o (IF Keep(r) THEN <<r>> ELSE <<>>)

RECURSIVE Rows(_, _)
Rows(headers, dataLines) ==
    IF dataLines = <<>> THEN <<>>
    ELSE LET r == Record(headers, Head(dataLines))
         IN  (IF Keep(r) THEN <<r>> ELSE <<>>) \o Rows(headers, Tail(dataLines))

NoResult == [ok |-> FALSE, error |-> "", headers |-> <<>>, rows |-> <<>>]

parseCSVBuiltIn(t) ==
    LET lines == Lines(t)
    IN  IF lines = <<>>
        THEN [ok |-> FALSE, error |-> "Empty file",
              headers |-> <<>>, rows |-> <<>>]
        ELSE [ok |-> TRUE, error |-> "",
              headers |-> Headers(lines),
              rows |-> Rows(Headers(lines), DataLines(lines))]

\* ------------------------------------------------------------------------
\* Bounds of the application model
\* ------------------------------------------------------------------------
\* The row limit of handleFile.  The source compares with 500; the model
\* runs the same comparisons against a limit small enough to build files
\* below, at and above it.
RowLimit == 2

\* handleFile invocations that may wait for file.text() at the same time
MaxReads == 2

\* requests sent to the prediction service in one behaviour
MaxSent == 2

\* ------------------------------------------------------------------------
\* Uploaded files
\* ------------------------------------------------------------------------
REQ_COLS ==
    << <<"step">>, <<"type">>, <<"amount">>, <<"oldbalanceOrg">>,
       <<"newbalanceOrig">>, <<"oldbalanceDest">>, <<"newbalanceDest">> >>

\* A header without the columns type and amount.
SomeCols ==
    << <<"step">>, <<"oldbalanceOrg">>, <<"newbalanceOrig">>,
       <<"oldbalanceDest">>, <<"newbalanceDest">> >>

RECURSIVE JoinComma(_)
JoinComma(fs) ==
    IF fs = <<>> THEN <<>>
    ELSE IF Len(fs) = 1 THEN fs[1]
    ELSE fs[1] \o <<COMMA>> \o JoinComma(Tail(fs))

\* "1,a": step 1 and type a, the other columns missing
ValuedLine == <<DIGIT, COMMA, LETTER>>
\* ",": two empty fields
BlankLine == <<COMMA>>

RECURSIVE Repeat(_, _)
Repeat(l, n) == IF n = 0 THEN <<>> ELSE <<l>> \o Repeat(l, n - 1)

RECURSIVE JoinLF(_)
JoinLF(ls) ==
    IF ls = <<>> THEN <<>>
    ELSE IF Len(ls) = 1 THEN ls[1]
    ELSE ls[1] \o <<LF>> \o JoinLF(Tail(ls))

\* A file is named by what it holds: the format of its lines, its header,
\* v data lines with values followed by b data lines of empty fields.
NoFile == [fmt |-> "none", hdr |-> "none", v |-> 0, b |-> 0]
EmptyFile == [fmt |-> "standard", hdr |-> "none", v |-> 0, b |-> 0]

Files ==
    {EmptyFile} \cup
    {f \in [fmt : {"standard", "quoted"}, hdr : {"full", "some"},
            v : 0..(RowLimit + 1), b : 0..1] :
        /\ f.hdr = "some" => (f.b = 0 /\ f.v \in {1, RowLimit + 1})
        /\ f.b = 1 => f.v \in {0, RowLimit}}

FileLines(f) ==
    <<JoinComma(IF f.hdr = "full" THEN REQ_COLS ELSE SomeCols)>>
        \o Repeat(ValuedLine, f.v) \o Repeat(BlankLine, f.b)

\* file.text()
FileText(f) ==
    IF f.hdr = "none" THEN <<>>
    ELSE LET ls == FileLines(f)
         IN  JoinLF([i \in 1..Len(ls) |->
                        IF f.fmt = "quoted"
                        THEN <<QUOTE>> \o ls[i] \o <<QUOTE>> ELSE ls[i]])

\* ------------------------------------------------------------------------
\* Papa.parse(text, {header: true, skipEmptyLines: true,
\*                   dynamicTyping: true})
\* for texts whose lines are free of double quotes or are one quoted field.
\* ------------------------------------------------------------------------
JSNull == [type |-> "null", str |-> <<>>, num |-> 0, finite |-> TRUE]

\* one quoted field holds the whole line, commas included
PapaFields(line) ==
    IF StartsWithQuote(line) /\ EndsWithQuote(line) /\ Len(line) >= 2
    THEN <<Slice1(line)>>
    ELSE SplitComma(line)

\* skipEmptyLines: true skips the lines that are the empty string
RECURSIVE PapaRows(_)
PapaRows(ls) ==
    IF ls = <<>> THEN <<>>
    ELSE (IF Head(ls) = <<>> THEN <<>> ELSE <<PapaFields(Head(ls))>>)
             \o PapaRows(Tail(ls))

\* dynamicTyping: an empty field is null, digits are a number
PapaTyped(raw) ==
    IF raw = <<>> THEN JSNull
    ELSE IF AllDigits(Trim(raw)) THEN JSNumber(DecimalValue(Trim(raw)))
    ELSE JSString(raw)

\* a row has the keys of the fields it holds
PapaObj(fields, vals) ==
    LET n == IF Len(vals) <= Len(fields) THEN Len(vals) ELSE Len(fields)
    IN  [k \in {fields[i] : i \in 1..n} |->
            PapaTyped(vals[CHOOSE i \in 1..n : fields[i] = k])]

PapaParse(t) ==
    LET rs == PapaRows(SplitLines(t))
    IN  IF rs = <<>> THEN [fields |-> <<>>, data |-> <<>>]
        ELSE [fields |-> rs[1],
              data |-> [i \in 1..(Len(rs) - 1) |-> PapaObj(rs[1], rs[i + 1])]]

\* arr.includes(c)
Includes(arr, c) == \E i \in 1..Len(arr) : arr[i] = c

\* the filter naming every required column
MissingColsAll(headers) == REQ_COLS

\* REQ_COLS.filter(c => !headers.includes(c))
MissingCols(headers) ==
    SelectSeq(REQ_COLS, LAMBDA c : ~Includes(headers, c))

\* ------------------------------------------------------------------------
\* Messages and responses
\* ------------------------------------------------------------------------
Msg(kind, parser, n, missing, found) ==
    [kind |-> kind, parser |-> parser, n |-> n,
     missing |-> missing, found |-> found]

NoMsg == Msg("", "", 0, <<>>, <<>>)
\* "Max 500 rows allowed."
MaxRowsMsg == Msg("Max rows allowed.", "", RowLimit, <<>>, <<>>)
\* "No data rows found."
NoDataMsg == Msg("No data rows found.", "", 0, <<>>, <<>>)
\* `Missing columns: ${miss.join(", ")}. Found: ${headers.join(", ")}`
MissingMsg(miss, headers) == Msg("Missing columns", "", 0, miss, headers)
\* `Parse error: ${e.message}`
ParseErrorMsg(m) == Msg("Parse error", m, 0, <<>>, <<>>)
\* `... Parsed with PapaParse · ${data.length} rows loaded`
PapaInfo(n) == Msg("rows loaded", "PapaParse", n, <<>>, <<>>)
\* `... Built-in parser used (non-standard CSV format) · ${n} rows loaded`
BuiltInInfo(n) == Msg("rows loaded", "Built-in", n, <<>>, <<>>)

\* ------------------------------------------------------------------------
\* State of the application
\* ------------------------------------------------------------------------
VARIABLES
    page,         \* App: the page shown
    health,       \* App: the last health answer, "" for null
    checks,       \* health checks sent and not yet answered
    apiUp,        \* the service answers health checks
    rows,         \* BatchPage
    fileName,     \* BatchPage, NoFile for ""
    parseErr,     \* BatchPage
    parseInfo,    \* BatchPage
    reads,        \* BatchPage: handleFile invocations waiting for file.text()
    batchLoading, \* BatchPage: loading
    batchError,   \* BatchPage: error
    batchResult,  \* BatchPage: result
    form,         \* PredictPage
    predLoading,  \* PredictPage: loading
    predError,    \* PredictPage: error
    predResult,   \* PredictPage: result
    flipped,      \* PredictPage
    timers,       \* PredictPage: pending setTimeout(() => setFlipped(true), 200)
    net,          \* prediction requests sent and not yet answered
    sent,         \* number of prediction requests the service was sent
    clicks,       \* number of submits of the user
    rejected,     \* the error the last failed prediction request rejected with
    history,      \* localStorage[HK]
    now,          \* Date.now()
    hookHistory,  \* localStorage[HISTORY_KEY]
    storage,      \* localStorage: which of its accesses throw
    corrupt,      \* the keys whose value JSON.parse rejects
    hook,         \* useFraudPredict, useBatchPredict: result, loading, error
    calls,        \* predict calls of the hooks awaiting the service
    settled,      \* how the last completed predict call of a hook settled
    dashHistory,  \* DashboardPage: history
    missed        \* the keys an entry was not stored under since the last one was

appVars == <<page, health, checks, apiUp>>
fileVars == <<rows, fileName, parseErr, parseInfo, reads>>
batchVars == <<batchLoading, batchError, batchResult>>
predVars == <<form, predLoading, predError, predResult, flipped, timers>>
netVars == <<net, sent, clicks, rejected>>
storeVars == <<history, now>>
diskVars == <<hookHistory, storage, corrupt, missed>>
hookVars == <<hook, calls, settled>>
uiVars ==
    <<appVars, fileVars, batchVars, predVars, netVars, storeVars, diskVars,
      hookVars, dashHistory>>

\* api.post / api.get responses
NoResponse == [ok |-> FALSE, results |-> <<>>]
Verdict(fraud) == [is_fraud |-> fraud]
\* one result per transaction, in order
BatchResponse(n, fraud) == [ok |-> TRUE, results |-> [i \in 1..n |-> Verdict(fraud)]]
SingleResponse(fraud) == [ok |-> TRUE, results |-> <<Verdict(fraud)>>]

\* The errors axios rejects with: err.response?.data?.detail ("" when the
\* answer has none or there is no answer) and err.message.
Errors ==
    {e \in [response : BOOLEAN,
            detail : {"", "Invalid transaction"},
            message : {"", "Network Error"}] :
        e.detail # "" => e.response}

NoError == [response |-> FALSE, detail |-> "", message |-> "none"]

\* apiPredict ignoring the detail of the answer
ApiPredictMessageNoDetail(e) ==
    IF e.message # "" THEN e.message ELSE "Prediction failed"

\* apiPredict: err.response?.data?.detail || err.message || "Prediction failed"
ApiPredictMessage(e) ==
    IF e.detail # "" THEN e.detail
    ELSE IF e.message # "" THEN e.message
    ELSE "Prediction failed"

\* apiBatchPredict: ... || err.message || "Batch prediction failed"
ApiBatchMessage(e) ==
    IF e.detail # "" THEN e.detail
    ELSE IF e.message # "" THEN e.message
    ELSE "Batch prediction failed"

\* useFraudPredict: err.response?.data?.detail || 'Prediction failed. Please try again.'
HookPredictMessage(e) ==
    IF e.detail # "" THEN e.detail ELSE "Prediction failed. Please try again."

\* useBatchPredict: err.response?.data?.detail || 'Batch prediction failed.'
HookBatchMessage(e) ==
    IF e.detail # "" THEN e.detail ELSE "Batch prediction failed."

\* PredictPage form, by its type and amount
InitialForm == [type |-> "TRANSFER", amount |-> 0]
Presets == {[type |-> "TRANSFER", amount |-> 181],
            [type |-> "CASH_OUT", amount |-> 500000]}

\* ------------------------------------------------------------------------
\* History store
\* ------------------------------------------------------------------------
HISTORY_MAX == 500

Take(s, n) == SubSeq(s, 1, IF Len(s) <= n THEN Len(s) ELSE n)

\* addToHistory(r) that stores the whole list
AddToHistoryNoLimit(h, r, type, amount, t) ==
    <<[is_fraud |-> r.is_fraud, type |-> type, amount |-> amount, id |-> t]>> \o h

\* addToHistory(r): unshift { ...r, id: Date.now() }, keep the first 500
AddToHistory(h, r, type, amount, t) ==
    Take(<<[is_fraud |-> r.is_fraud, type |-> type, amount |-> amount,
            id |-> t]>> \o h, HISTORY_MAX)

\* res.results.forEach(r => addToHistory({ ...r })), the loop running
\* within the millisecond t
RECURSIVE AddAllToHistory(_, _, _)
AddAllToHistory(h, results, t) ==
    IF results = <<>> THEN h
    ELSE AddAllToHistory(AddToHistory(h, Head(results), "", 0, t),
                         Tail(results), t)

\* localStorage works ("ok"), rejects writes ("quota": setItem throws) or
\* is not accessible ("unavailable": getItem, setItem and removeItem throw)
StorageModes == {"ok", "quota", "unavailable"}

HK == "fg_history_v2"
HISTORY_KEY == "fraudguard_history"

\* What localStorage holds under key k: a list of entries, or a text that
\* JSON.parse rejects
Stored(k) ==
    [entries |-> IF k = HK THEN history ELSE hookHistory,
     parseable |-> k \notin corrupt]

\* loadHistory() that reads what it can of a damaged text
LoadHistoryLenient(st) ==
    IF storage = "unavailable" THEN <<>> ELSE st.entries

\* loadHistory(), getHistory(): the stored list, [] when getItem or
\* JSON.parse throws
LoadHistory(st) ==
    IF storage = "unavailable" \/ ~st.parseable THEN <<>> ELSE st.entries

\* addToHistory(r) on the stored value: nothing is written when setItem
\* throws
AddToStore(st, r, type, amount, t) ==
    IF storage # "ok" THEN st
    ELSE [entries |-> AddToHistory(LoadHistory(st), r, type, amount, t),
          parseable |-> TRUE]

\* res.results.forEach(r => addToHistory({ ...r })) on the stored value
AddAllToStore(st, results, t) ==
    IF storage # "ok" \/ results = <<>> THEN st
    ELSE [entries |-> AddAllToHistory(LoadHistory(st), results, t),
          parseable |-> TRUE]

MAX_HISTORY == 200

\* saveToHistory(entry): [{ ...entry, id: Date.now() }, ...existing], the
\* first 200 kept
SaveToHistory(h, mode, r, type, amount, t) ==
    Take(<<[mode |-> mode, is_fraud |-> r.is_fraud, type |-> type,
            amount |-> amount, id |-> t]>> \o h, MAX_HISTORY)

\* saveToHistory on the stored value: everything it does is inside one try
SaveToStore(st, mode, r, type, amount, t) ==
    IF storage # "ok" THEN st
    ELSE [entries |-> SaveToHistory(LoadHistory(st), mode, r, type, amount, t),
          parseable |-> TRUE]

\* data.results.forEach(r => saveToHistory({ mode: 'batch', ... }))
RECURSIVE SaveAllToStore(_, _, _)
SaveAllToStore(st, results, t) ==
    IF results = <<>> THEN st
    ELSE SaveAllToStore(SaveToStore(st, "batch", Head(results), "", 0, t),
                        Tail(results), t)

\* localStorage.setItem(k, ...) and removeItem(k) as seen in the variables
Write(k, st) ==
    /\ IF k = HK
       THEN history' = st.entries /\ UNCHANGED hookHistory
       ELSE hookHistory' = st.entries /\ UNCHANGED history
    /\ corrupt' = IF st.parseable THEN corrupt \ {k} ELSE corrupt \cup {k}

\* The keys under which an addition has stored nothing since the last one
\* that stored its entry, after an addition under key k
MissedAfterAdd(k) == IF storage = "ok" THEN missed \ {k} ELSE missed \cup {k}

\* The store n earlier predictions left, one a millisecond, the last one at
\* time t: the newest entry is the first
Earlier(n, t) ==
    [i \in 1..n |-> [is_fraud |-> FALSE, type |-> "TRANSFER", amount |-> 181,
                     id |-> t + 1 - i]]

HookEarlier(n, t) ==
    [i \in 1..n |-> [mode |-> "single", is_fraud |-> FALSE, type |-> "TRANSFER",
                     amount |-> 181, id |-> t + 1 - i]]

\* ------------------------------------------------------------------------
\* The hooks useFraudPredict and useBatchPredict
\* ------------------------------------------------------------------------
HookKinds == {"single", "batch"}

\* useState(null), useState(false), useState(null); "" stands for null
HookIdle == [result |-> NoResponse, loading |-> FALSE, error |-> ""]

NotSettled == [id |-> 0, how |-> "none", defined |-> FALSE, data |-> NoResponse]

\* ------------------------------------------------------------------------
\* Initial state: App mounted on the home page, the first health check sent
\* ------------------------------------------------------------------------
IdleRead == [busy |-> FALSE, file |-> NoFile, lone |-> TRUE]

BatchMounted ==
    /\ rows = <<>>
    /\ fileName = NoFile
    /\ parseErr = NoMsg
    /\ parseInfo = NoMsg
    /\ reads = [i \in 1..MaxReads |-> IdleRead]
    /\ batchLoading = FALSE
    /\ batchError = ""
    /\ batchResult = NoResponse

PredictMounted ==
    /\ form = InitialForm
    /\ predLoading = FALSE
    /\ predError = ""
    /\ predResult = NoResponse
    /\ flipped = FALSE
    /\ timers = 0

\* App mounted, whatever localStorage holds
Mounted ==
    /\ page = "home"
    /\ health = ""
    /\ checks = 1
    /\ apiUp \in BOOLEAN
    /\ BatchMounted
    /\ PredictMounted
    /\ net = {}
    /\ sent = 0
    /\ clicks = 0
    /\ rejected = NoError
    /\ now = 0
    /\ storage = "ok"
    /\ corrupt = {}
    /\ missed = {}
    /\ hook = [k \in HookKinds |-> HookIdle]
    /\ calls = {}
    /\ settled = NotSettled
    /\ dashHistory = <<>>

\* App mounted in a browser that stores no history yet
AppMounted ==
    /\ Mounted
    /\ history = <<>>
    /\ hookHistory = <<>>

\* ------------------------------------------------------------------------
\* The parser applied to one text
\* ------------------------------------------------------------------------
VARIABLES text, pc, ret, isQuotedRow

parserVars == <<text, pc, ret, isQuotedRow>>

ParserInit ==
    /\ text \in Texts
    /\ pc = "call"
    /\ ret = NoResult
    /\ isQuotedRow = FALSE
    /\ AppMounted
    /\ apiUp = TRUE

\* parseCSVBuiltIn(text) throws Error("Empty file")
ParseThrow ==
    /\ pc = "call"
    /\ Lines(text) = <<>>
    /\ ret' = parseCSVBuiltIn(text)
    /\ pc' = "thrown"
    /\ UNCHANGED <<text, isQuotedRow>>
    /\ UNCHANGED uiVars

\* parseCSVBuiltIn(text) returns { headers, rows }
ParseReturn ==
    /\ pc = "call"
    /\ Lines(text) # <<>>
    /\ ret' = parseCSVBuiltIn(text)
    /\ isQuotedRow' = IsQuotedRow(FirstLine(text))
    /\ pc' = "returned"
    /\ UNCHANGED text
    /\ UNCHANGED uiVars

ParserNext == ParseThrow \/ ParseReturn

vars == <<parserVars, uiVars>>

ParserSpec == ParserInit /\ [][ParserNext]_vars

\* ------------------------------------------------------------------------
\* BatchPage.handleFile
\* ------------------------------------------------------------------------
HasCols(fields) == \A i \in 1..Len(REQ_COLS) : Includes(fields, REQ_COLS[i])

Loaded(data, info) == [loaded |-> TRUE, rows |-> data, msg |-> info]
Failed(err) == [loaded |-> FALSE, rows |-> <<>>, msg |-> err]

\* the built-in parser branch with the row limit compared by >=
BuiltInOutcomeAtLimit(t) ==
    LET r == parseCSVBuiltIn(t)
    IN  IF ~r.ok THEN Failed(ParseErrorMsg(r.error))
        ELSE IF MissingCols(r.headers) # <<>>
             THEN Failed(MissingMsg(MissingCols(r.headers), r.headers))
        ELSE IF Len(r.rows) >= RowLimit THEN Failed(MaxRowsMsg)
        ELSE IF Len(r.rows) = 0 THEN Failed(NoDataMsg)
        ELSE Loaded(r.rows, BuiltInInfo(Len(r.rows)))

\* the built-in parser branch
BuiltInOutcome(t) ==
    LET r == parseCSVBuiltIn(t)
    IN  IF ~r.ok THEN Failed(ParseErrorMsg(r.error))
        ELSE IF MissingCols(r.headers) # <<>>
             THEN Failed(MissingMsg(MissingCols(r.headers), r.headers))
        ELSE IF Len(r.rows) > RowLimit THEN Failed(MaxRowsMsg)
        ELSE IF Len(r.rows) = 0 THEN Failed(NoDataMsg)
        ELSE Loaded(r.rows, BuiltInInfo(Len(r.rows)))

\* what handleFile does with the text once file.text() has resolved
HandleFileOutcome(t) ==
    LET papa == PapaParse(t)
    IN  IF HasCols(papa.fields) /\ Len(papa.data) > 0
        THEN IF Len(papa.data) > RowLimit THEN Failed(MaxRowsMsg)
             ELSE Loaded(papa.data, PapaInfo(Len(papa.data)))
        ELSE BuiltInOutcome(t)

\* handleFile's outcome for every file of the catalogue
Outcomes ==
    {[file |-> f, outcome |-> HandleFileOutcome(FileText(f))] : f \in Files}

OutcomeOf(f) == (CHOOSE o \in Outcomes : o.file = f).outcome

UploadShown == page = "batch" /\ batchResult = NoResponse

\* handleFile(file) without setRows([]) before the file is read
HandleFileStartKeepRows(f, i) ==
    /\ UploadShown
    /\ ~reads[i].busy
    /\ parseErr' = NoMsg
    /\ parseInfo' = NoMsg
    /\ fileName' = f
    /\ reads' = [j \in 1..MaxReads |->
                    IF j = i
                    THEN [busy |-> TRUE, file |-> f,
                          lone |-> \A k \in 1..MaxReads : ~reads[k].busy]
                    ELSE [reads[j] EXCEPT !.lone = ~reads[j].busy]]
    /\ UNCHANGED <<rows, appVars, batchVars, predVars, netVars, storeVars, diskVars, hookVars, dashHistory, parserVars>>

\* handleFile(file) up to `await file.text()`
HandleFileStart(f, i) ==
    /\ UploadShown
    /\ ~reads[i].busy
    /\ parseErr' = NoMsg
    /\ parseInfo' = NoMsg
    /\ rows' = <<>>
    /\ fileName' = f
    /\ reads' = [j \in 1..MaxReads |->
                    IF j = i
                    THEN [busy |-> TRUE, file |-> f,
                          lone |-> \A k \in 1..MaxReads : ~reads[k].busy]
                    ELSE [reads[j] EXCEPT !.lone = ~reads[j].busy]]
    /\ UNCHANGED <<appVars, batchVars, predVars, netVars, storeVars, diskVars, hookVars, dashHistory, parserVars>>

\* handleFile(file) after `await file.text()`
HandleFileResume(i) ==
    /\ reads[i].busy
    /\ LET o == OutcomeOf(reads[i].file)
       IN  IF o.loaded
           THEN /\ rows' = o.rows
                /\ parseInfo' = o.msg
                /\ UNCHANGED parseErr
           ELSE /\ parseErr' = o.msg
                /\ UNCHANGED <<rows, parseInfo>>
    /\ reads' = [reads EXCEPT ![i] = IdleRead]
    /\ UNCHANGED fileName
    /\ UNCHANGED <<appVars, batchVars, predVars, netVars, storeVars, diskVars, hookVars, dashHistory, parserVars>>

\* clear
Clear ==
    /\ UploadShown
    /\ rows # <<>>
    /\ rows' = <<>>
    /\ fileName' = NoFile
    /\ parseErr' = NoMsg
    /\ parseInfo' = NoMsg
    /\ UNCHANGED reads
    /\ UNCHANGED <<appVars, batchVars, predVars, netVars, storeVars, diskVars, hookVars, dashHistory, parserVars>>

\* ------------------------------------------------------------------------
\* BatchPage.submit
\* ------------------------------------------------------------------------
Request(id, kind, transactions, tx) ==
    [id |-> id, kind |-> kind, transactions |-> transactions, tx |-> tx,
     live |-> TRUE]

\* submit with a button that stays enabled while loading
BatchSubmitWhileLoading ==
    /\ UploadShown
    /\ rows # <<>>
    /\ sent < MaxSent
    /\ batchError' = ""
    /\ batchLoading' = TRUE
    /\ batchResult' = NoResponse
    /\ net' = net \cup {Request(sent + 1, "batch", rows, InitialForm)}
    /\ sent' = sent + 1
    /\ clicks' = clicks + 1
    /\ UNCHANGED <<rejected, appVars, fileVars, predVars, storeVars, diskVars, hookVars, dashHistory, parserVars>>

\* submit up to `await apiBatchPredict(rows)`; the button is disabled
\* while loading or without rows
BatchSubmit ==
    /\ UploadShown
    /\ ~batchLoading
    /\ rows # <<>>
    /\ sent < MaxSent
    /\ batchError' = ""
    /\ batchLoading' = TRUE
    /\ batchResult' = NoResponse
    /\ net' = net \cup {Request(sent + 1, "batch", rows, InitialForm)}
    /\ sent' = sent + 1
    /\ clicks' = clicks + 1
    /\ UNCHANGED <<rejected, appVars, fileVars, predVars, storeVars, diskVars, hookVars, dashHistory, parserVars>>

\* the request resolves: setResult(res), one history entry per result
BatchSuccess(r, fraud) ==
    /\ r \in net
    /\ r.kind = "batch"
    /\ LET res == BatchResponse(Len(r.transactions), fraud)
       IN  /\ Write(HK, AddAllToStore(Stored(HK), res.results, now))
           /\ IF r.live
              THEN batchResult' = res /\ batchLoading' = FALSE
              ELSE UNCHANGED <<batchResult, batchLoading>>
    /\ net' = net \ {r}
    /\ missed' = MissedAfterAdd(HK)
    /\ UNCHANGED <<batchError, sent, clicks, rejected, now, storage>>
    /\ UNCHANGED <<appVars, fileVars, predVars, hookVars, dashHistory, parserVars>>

\* the request rejects: setError(e.message)
BatchFailure(r, e) ==
    /\ r \in net
    /\ r.kind = "batch"
    /\ IF r.live
       THEN batchError' = ApiBatchMessage(e) /\ batchLoading' = FALSE
       ELSE UNCHANGED <<batchError, batchLoading>>
    /\ net' = net \ {r}
    /\ rejected' = e
    /\ UNCHANGED <<batchResult, sent, clicks>>
    /\ UNCHANGED <<appVars, fileVars, predVars, storeVars, diskVars, hookVars, dashHistory, parserVars>>

\* "Upload Another File"
UploadAnother ==
    /\ page = "batch"
    /\ batchResult # NoResponse
    /\ batchResult' = NoResponse
    /\ rows' = <<>>
    /\ fileName' = NoFile
    /\ UNCHANGED <<parseErr, parseInfo, reads, batchLoading, batchError>>
    /\ UNCHANGED <<appVars, predVars, netVars, storeVars, diskVars, hookVars, dashHistory, parserVars>>

\* ------------------------------------------------------------------------
\* PredictPage
\* ------------------------------------------------------------------------
\* onChange of the type select or of the amount input (0: the empty input)
OnChange(name, value) ==
    /\ page = "predict"
    /\ form' = IF name = "type" THEN [form EXCEPT !.type = value]
                ELSE [form EXCEPT !.amount = value]
    /\ form' # form
    /\ UNCHANGED <<predLoading, predError, predResult, flipped, timers>>
    /\ UNCHANGED <<appVars, fileVars, batchVars, netVars, storeVars, diskVars, hookVars, dashHistory, parserVars>>

LoadPreset(d) ==
    /\ page = "predict"
    /\ form' = d
    /\ predResult' = NoResponse
    /\ flipped' = FALSE
    /\ predError' = ""
    /\ UNCHANGED <<predLoading, timers>>
    /\ UNCHANGED <<appVars, fileVars, batchVars, netVars, storeVars, diskVars, hookVars, dashHistory, parserVars>>

\* submit up to `await apiPredict(form)`; the button is disabled while loading
PredictSubmit ==
    /\ page = "predict"
    /\ ~predLoading
    /\ sent < MaxSent
    /\ predError' = ""
    /\ predLoading' = TRUE
    /\ predResult' = NoResponse
    /\ flipped' = FALSE
    /\ net' = net \cup {Request(sent + 1, "single", <<>>, form)}
    /\ sent' = sent + 1
    /\ clicks' = clicks + 1
    /\ UNCHANGED <<form, timers, rejected>>
    /\ UNCHANGED <<appVars, fileVars, batchVars, storeVars, diskVars, hookVars, dashHistory, parserVars>>

\* the request resolves and the entry takes the type and amount the form
\* holds by then
PredictSuccessLatestForm(r, fraud) ==
    /\ r \in net
    /\ r.kind = "single"
    /\ Write(HK, AddToStore(Stored(HK), Verdict(fraud), form.type, form.amount, now))
    /\ IF r.live
       THEN /\ predResult' = SingleResponse(fraud)
            /\ timers' = timers + 1
            /\ predLoading' = FALSE
       ELSE UNCHANGED <<predResult, timers, predLoading>>
    /\ net' = net \ {r}
    /\ missed' = MissedAfterAdd(HK)
    /\ UNCHANGED <<form, predError, flipped, sent, clicks, rejected, now, storage>>
    /\ UNCHANGED <<appVars, fileVars, batchVars, hookVars, dashHistory, parserVars>>

\* the request resolves: setResult(res), addToHistory with the type and
\* amount of the form submit ran with, the flip timer is set
PredictSuccess(r, fraud) ==
    /\ r \in net
    /\ r.kind = "single"
    /\ Write(HK, AddToStore(Stored(HK), Verdict(fraud), r.tx.type, r.tx.amount, now))
    /\ IF r.live
       THEN /\ predResult' = SingleResponse(fraud)
            /\ timers' = timers + 1
            /\ predLoading' = FALSE
       ELSE UNCHANGED <<predResult, timers, predLoading>>
    /\ net' = net \ {r}
    /\ missed' = MissedAfterAdd(HK)
    /\ UNCHANGED <<form, predError, flipped, sent, clicks, rejected, now, storage>>
    /\ UNCHANGED <<appVars, fileVars, batchVars, hookVars, dashHistory, parserVars>>

\* the request rejects and the failed prediction is put in the history
PredictFailureRecorded(r, e) ==
    /\ r \in net
    /\ r.kind = "single"
    /\ Write(HK, AddToStore(Stored(HK), Verdict(FALSE), r.tx.type, r.tx.amount, now))
    /\ IF r.live
       THEN predError' = ApiPredictMessage(e) /\ predLoading' = FALSE
       ELSE UNCHANGED <<predError, predLoading>>
    /\ net' = net \ {r}
    /\ rejected' = e
    /\ missed' = MissedAfterAdd(HK)
    /\ UNCHANGED <<form, predResult, flipped, timers, sent, clicks, now, storage>>
    /\ UNCHANGED <<appVars, fileVars, batchVars, hookVars, dashHistory, parserVars>>

\* the request rejects and submit sends it again
PredictFailureRetry(r, e) ==
    /\ r \in net
    /\ r.kind = "single"
    /\ sent < MaxSent
    /\ sent' = sent + 1
    /\ rejected' = e
    /\ UNCHANGED <<net, clicks>>
    /\ UNCHANGED <<appVars, fileVars, batchVars, predVars, storeVars, diskVars, hookVars, dashHistory, parserVars>>

\* the request rejects: setError(e.message)
PredictFailure(r, e) ==
    /\ r \in net
    /\ r.kind = "single"
    /\ IF r.live
       THEN predError' = ApiPredictMessage(e) /\ predLoading' = FALSE
       ELSE UNCHANGED <<predError, predLoading>>
    /\ net' = net \ {r}
    /\ rejected' = e
    /\ UNCHANGED <<form, predResult, flipped, timers, sent, clicks>>
    /\ UNCHANGED <<appVars, fileVars, batchVars, storeVars, diskVars, hookVars, dashHistory, parserVars>>

\* setTimeout(() => setFlipped(true), 200) fires
FlipTimer ==
    /\ timers > 0
    /\ timers' = timers - 1
    /\ flipped' = TRUE
    /\ UNCHANGED <<form, predLoading, predError, predResult>>
    /\ UNCHANGED <<appVars, fileVars, batchVars, netVars, storeVars, diskVars, hookVars, dashHistory, parserVars>>

\* onClick of the card: result && setFlipped(f => !f)
CardClick ==
    /\ page = "predict"
    /\ predResult # NoResponse
    /\ flipped' = ~flipped
    /\ UNCHANGED <<form, predLoading, predError, predResult, timers>>
    /\ UNCHANGED <<appVars, fileVars, batchVars, netVars, storeVars, diskVars, hookVars, dashHistory, parserVars>>

\* "New Analysis"
NewAnalysis ==
    /\ page = "predict"
    /\ predResult # NoResponse
    /\ predResult' = NoResponse
    /\ flipped' = FALSE
    /\ predError' = ""
    /\ UNCHANGED <<form, predLoading, timers>>
    /\ UNCHANGED <<appVars, fileVars, batchVars, netVars, storeVars, diskVars, hookVars, dashHistory, parserVars>>

\* ------------------------------------------------------------------------
\* App: navigation and health polling
\* ------------------------------------------------------------------------
Pages == {"home", "predict", "batch", "dashboard"}

\* health checks that may be unanswered at the same time
MaxChecks == 2

\* setPage(p): the page shown is unmounted and p is mounted with its
\* initial state; what the unmounted page still awaits no longer changes
\* any page state
Navigate(p) ==
    /\ p \in Pages
    /\ p # page
    /\ page' = p
    /\ rows' = <<>>
    /\ fileName' = NoFile
    /\ parseErr' = NoMsg
    /\ parseInfo' = NoMsg
    /\ reads' = [i \in 1..MaxReads |-> IdleRead]
    /\ batchLoading' = FALSE
    /\ batchError' = ""
    /\ batchResult' = NoResponse
    /\ form' = InitialForm
    /\ predLoading' = FALSE
    /\ predError' = ""
    /\ predResult' = NoResponse
    /\ flipped' = FALSE
    /\ timers' = 0
    /\ net' = {[r EXCEPT !.live = FALSE] : r \in net}
    /\ dashHistory' = IF p = "dashboard" THEN LoadHistory(Stored(HK)) ELSE <<>>
    /\ UNCHANGED <<health, checks, apiUp, sent, clicks, rejected>>
    /\ UNCHANGED <<storeVars, diskVars, hookVars, parserVars>>

\* setInterval(check, 30000) fires: apiHealth() is called
PollTick ==
    /\ checks < MaxChecks
    /\ checks' = checks + 1
    /\ UNCHANGED <<page, health, apiUp>>
    /\ UNCHANGED <<fileVars, batchVars, predVars, netVars, storeVars, diskVars, hookVars, dashHistory, parserVars>>

\* apiHealth().then(setHealth)
HealthOk ==
    /\ checks > 0
    /\ apiUp
    /\ health' = "healthy"
    /\ checks' = checks - 1
    /\ UNCHANGED <<page, apiUp>>
    /\ UNCHANGED <<fileVars, batchVars, predVars, netVars, storeVars, diskVars, hookVars, dashHistory, parserVars>>

\* apiHealth() rejects and the status is left as it was
HealthFailSilent ==
    /\ checks > 0
    /\ ~apiUp
    /\ checks' = checks - 1
    /\ UNCHANGED <<page, health, apiUp>>
    /\ UNCHANGED <<fileVars, batchVars, predVars, netVars, storeVars, diskVars, hookVars, dashHistory, parserVars>>

\* apiHealth() rejects (error answer, network failure, timeout of 30000 ms):
\* .catch(() => setHealth(null))
HealthFail ==
    /\ checks > 0
    /\ ~apiUp
    /\ health' = ""
    /\ checks' = checks - 1
    /\ UNCHANGED <<page, apiUp>>
    /\ UNCHANGED <<fileVars, batchVars, predVars, netVars, storeVars, diskVars, hookVars, dashHistory, parserVars>>

\* the service goes down or comes back
ServiceChange ==
    /\ apiUp' = ~apiUp
    /\ UNCHANGED <<page, health, checks>>
    /\ UNCHANGED <<fileVars, batchVars, predVars, netVars, storeVars, diskVars, hookVars, dashHistory, parserVars>>

\* ------------------------------------------------------------------------
\* DashboardPage
\* ------------------------------------------------------------------------
\* setInterval(() => setHistory(loadHistory()), 3000) fires
DashboardPoll ==
    /\ page = "dashboard"
    /\ dashHistory' = LoadHistory(Stored(HK))
    /\ UNCHANGED <<appVars, fileVars, batchVars, predVars, netVars>>
    /\ UNCHANGED <<storeVars, diskVars, hookVars, parserVars>>

\* "Clear History", shown when the page has entries to show:
\* clearHistory(); setHistory([]). removeItem throws when localStorage is
\* not accessible, and the handler ends there.
ClearHistoryClick ==
    /\ page = "dashboard"
    /\ dashHistory # <<>>
    /\ storage # "unavailable"
    /\ Write(HK, [entries |-> <<>>, parseable |-> TRUE])
    /\ dashHistory' = <<>>
    /\ UNCHANGED <<appVars, fileVars, batchVars, predVars, netVars>>
    /\ UNCHANGED <<now, storage, missed, hookVars, parserVars>>

\* ------------------------------------------------------------------------
\* Time and localStorage
\* ------------------------------------------------------------------------
\* the latest value of Date.now() the model reaches
MaxNow == 1

\* a millisecond passes
Tick ==
    /\ now < MaxNow
    /\ now' = now + 1
    /\ UNCHANGED <<appVars, fileVars, batchVars, predVars, netVars>>
    /\ UNCHANGED <<history, diskVars, hookVars, dashHistory, parserVars>>

\* localStorage fills up, is blocked, or works again
StorageChange(m) ==
    /\ m \in StorageModes
    /\ m # storage
    /\ storage' = m
    /\ UNCHANGED <<appVars, fileVars, batchVars, predVars, netVars>>
    /\ UNCHANGED <<storeVars, hookHistory, corrupt, missed, hookVars, dashHistory, parserVars>>

\* the text stored under key k is damaged and is no JSON any more
Corrupt(k) ==
    /\ k \notin corrupt
    /\ Write(k, [entries |-> Stored(k).entries, parseable |-> FALSE])
    /\ UNCHANGED <<appVars, fileVars, batchVars, predVars, netVars>>
    /\ UNCHANGED <<now, storage, missed, hookVars, dashHistory, parserVars>>

\* ------------------------------------------------------------------------
\* useFraudPredict.predict, useBatchPredict.predict, helpers.js
\* ------------------------------------------------------------------------
\* lone: no other call of the same hook has been awaiting the service
\* since this one was made
Call(id, kind, input, lone) ==
    [id |-> id, kind |-> kind, input |-> input, lone |-> lone]

\* the arguments predict is called with: a transaction, a list of them
HookInputs(k) ==
    IF k = "single" THEN {<<d>> : d \in Presets}
    ELSE {<<d>> : d \in Presets} \cup {<<d, e>> : d, e \in Presets}

\* predict up to `await predictSingle(transaction)` or
\* `await predictBatch(transactions)`
HookPredict(k, input) ==
    /\ k \in HookKinds
    /\ input \in HookInputs(k)
    /\ sent < MaxSent
    /\ hook' = [hook EXCEPT ![k] =
                   [result |-> NoResponse, loading |-> TRUE, error |-> ""]]
    /\ calls' = {IF c.kind = k THEN [c EXCEPT !.lone = FALSE] ELSE c : c \in calls}
                \cup {Call(sent + 1, k, input, \A c \in calls : c.kind # k)}
    /\ sent' = sent + 1
    /\ UNCHANGED <<settled, net, clicks, rejected>>
    /\ UNCHANGED <<appVars, fileVars, batchVars, predVars, storeVars, diskVars>>
    /\ UNCHANGED <<dashHistory, parserVars>>

\* The entries the hook saves for the answer to call c
HookSaved(c, data) ==
    IF c.kind = "single"
    THEN SaveToStore(Stored(HISTORY_KEY), "single", data.results[1],
                     c.input[1].type, c.input[1].amount, now)
    ELSE SaveAllToStore(Stored(HISTORY_KEY), data.results, now)

\* the service answers: setResult(data), saveToHistory, return data,
\* finally setLoading(false)
HookResolve(c, fraud) ==
    /\ c \in calls
    /\ LET data == IF c.kind = "single" THEN SingleResponse(fraud)
                   ELSE BatchResponse(Len(c.input), fraud)
       IN  /\ hook' = [hook EXCEPT ![c.kind] =
                          [@ EXCEPT !.result = data, !.loading = FALSE]]
           /\ Write(HISTORY_KEY, HookSaved(c, data))
           /\ settled' = [id |-> c.id, how |-> "resolved", defined |-> TRUE,
                          data |-> data]
    /\ calls' = calls \ {c}
    /\ missed' = MissedAfterAdd(HISTORY_KEY)
    /\ UNCHANGED <<net, sent, clicks, rejected, now, storage>>
    /\ UNCHANGED <<appVars, fileVars, batchVars, predVars, dashHistory, parserVars>>

\* the request rejects and predict throws the error on
HookRejectThrows(c, e) ==
    /\ c \in calls
    /\ hook' = [hook EXCEPT ![c.kind] =
                   [@ EXCEPT !.error = IF c.kind = "single"
                                       THEN HookPredictMessage(e)
                                       ELSE HookBatchMessage(e),
                             !.loading = FALSE]]
    /\ settled' = [id |-> c.id, how |-> "rejected", defined |-> FALSE,
                   data |-> NoResponse]
    /\ calls' = calls \ {c}
    /\ rejected' = e
    /\ UNCHANGED <<net, sent, clicks>>
    /\ UNCHANGED <<appVars, fileVars, batchVars, predVars, storeVars, diskVars>>
    /\ UNCHANGED <<dashHistory, parserVars>>

\* the request rejects: setError(msg), toast.error(msg), finally
\* setLoading(false); predict returns undefined
HookReject(c, e) ==
    /\ c \in calls
    /\ hook' = [hook EXCEPT ![c.kind] =
                   [@ EXCEPT !.error = IF c.kind = "single"
                                       THEN HookPredictMessage(e)
                                       ELSE HookBatchMessage(e),
                             !.loading = FALSE]]
    /\ settled' = [id |-> c.id, how |-> "resolved", defined |-> FALSE,
                   data |-> NoResponse]
    /\ calls' = calls \ {c}
    /\ rejected' = e
    /\ UNCHANGED <<net, sent, clicks>>
    /\ UNCHANGED <<appVars, fileVars, batchVars, predVars, storeVars, diskVars>>
    /\ UNCHANGED <<dashHistory, parserVars>>

\* reset: setResult(null); setError(null)
HookReset(k) ==
    /\ k \in HookKinds
    /\ hook' = [hook EXCEPT ![k] = [@ EXCEPT !.result = NoResponse, !.error = ""]]
    /\ UNCHANGED <<calls, settled>>
    /\ UNCHANGED <<appVars, fileVars, batchVars, predVars, netVars, storeVars>>
    /\ UNCHANGED <<diskVars, dashHistory, parserVars>>

\* helpers.js clearHistory: try { removeItem(HISTORY_KEY) } catch {}
HookClearHistory ==
    /\ IF storage = "unavailable"
       THEN UNCHANGED <<history, hookHistory, corrupt>>
       ELSE Write(HISTORY_KEY, [entries |-> <<>>, parseable |-> TRUE])
    /\ UNCHANGED <<appVars, fileVars, batchVars, predVars, netVars>>
    /\ UNCHANGED <<now, storage, missed, hookVars, dashHistory, parserVars>>

\* ------------------------------------------------------------------------
\* The application
\* ------------------------------------------------------------------------
Init ==
    /\ AppMounted
    /\ text = <<>>
    /\ pc = "idle"
    /\ ret = NoResult
    /\ isQuotedRow = FALSE

\* BatchPage: choosing files
FileNext ==
    \/ \E p \in Pages : Navigate(p)
    \/ \E f \in Files, i \in 1..MaxReads : HandleFileStart(f, i)
    \/ \E i \in 1..MaxReads : HandleFileResume(i)
    \/ Clear

FileSpec == Init /\ [][FileNext]_vars

\* Files to analyse: loaded by PapaParse, loaded by the built-in parser,
\* above the row limit, without the required columns, with a line of empty
\* fields
BatchFiles ==
    {f \in Files :
        \/ f.fmt = "standard" /\ f.hdr = "full" /\ f.v = RowLimit
        \/ f.fmt = "quoted" /\ f.hdr = "full" /\ f.v = 1 /\ f.b = 0
        \/ f.fmt = "quoted" /\ f.hdr = "full" /\ f.v = RowLimit + 1
        \/ f.fmt = "standard" /\ f.hdr = "some" /\ f.v = 1}

\* BatchPage: choosing files and analysing them
BatchNext ==
    \/ \E p \in {"home", "batch"} : Navigate(p)
    \/ \E f \in BatchFiles, i \in 1..MaxReads : HandleFileStart(f, i)
    \/ \E i \in 1..MaxReads : HandleFileResume(i)
    \/ Clear
    \/ BatchSubmit
    \/ \E r \in net, fraud \in BOOLEAN : BatchSuccess(r, fraud)
    \/ \E r \in net, e \in Errors : BatchFailure(r, e)
    \/ UploadAnother

BatchSpec == Init /\ [][BatchNext]_vars

\* A file with one data line, all required columns in its header
SampleFile == [fmt |-> "standard", hdr |-> "full", v |-> 1, b |-> 0]

\* A file with two data lines
PairFile == [fmt |-> "standard", hdr |-> "full", v |-> 2, b |-> 0]

\* Both pages that call the prediction service, one file to analyse
SubmitNext ==
    \/ \E p \in Pages : Navigate(p)
    \/ HandleFileStart(SampleFile, 1)
    \/ HandleFileResume(1)
    \/ BatchSubmit
    \/ \E r \in net, fraud \in BOOLEAN : BatchSuccess(r, fraud)
    \/ \E r \in net, e \in Errors : BatchFailure(r, e)
    \/ UploadAnother
    \/ \E value \in {"TRANSFER", "PAYMENT"} : OnChange("type", value)
    \/ \E value \in {0, 181} : OnChange("amount", value)
    \/ \E d \in Presets : LoadPreset(d)
    \/ PredictSubmit
    \/ \E r \in net, fraud \in BOOLEAN : PredictSuccess(r, fraud)
    \/ \E r \in net, e \in Errors : PredictFailure(r, e)
    \/ FlipTimer
    \/ CardClick
    \/ NewAnalysis

SubmitSpec == Init /\ [][SubmitNext]_vars

\* Health polling while the user moves between the pages and works on them
HealthNext ==
    \/ PollTick
    \/ HealthOk
    \/ HealthFail
    \/ ServiceChange
    \/ \E p \in Pages : Navigate(p)
    \/ HandleFileStart(SampleFile, 1)
    \/ HandleFileResume(1)
    \/ \E d \in Presets : LoadPreset(d)
    \/ PredictSubmit
    \/ \E r \in net, fraud \in BOOLEAN : PredictSuccess(r, fraud)

HealthSpec == Init /\ [][HealthNext]_vars

\* The interval timer keeps firing and every check is answered or times out
\* (axios timeout: 30000).
HealthFairSpec ==
    /\ HealthSpec
    /\ WF_vars(PollTick)
    /\ WF_vars(HealthOk)
    /\ WF_vars(HealthFail)

\* The request fails without an answer
NetworkError == [response |-> FALSE, detail |-> "", message |-> "Network Error"]

\* One transaction for useFraudPredict, two for useBatchPredict
SampleInput(k) ==
    IF k = "single" THEN << [type |-> "TRANSFER", amount |-> 181] >>
    ELSE << [type |-> "TRANSFER", amount |-> 181],
            [type |-> "CASH_OUT", amount |-> 500000] >>

\* Predictions of the pages and of the hooks, and what becomes of the
\* stored histories
HistoryNext ==
    \/ \E p \in {"predict", "batch", "dashboard"} : Navigate(p)
    \/ \E d \in Presets : LoadPreset(d)
    \/ PredictSubmit
    \/ \E r \in net, fraud \in BOOLEAN : PredictSuccess(r, fraud)
    \/ \E r \in net : PredictFailure(r, NetworkError)
    \/ HandleFileStart(PairFile, 1)
    \/ HandleFileResume(1)
    \/ BatchSubmit
    \/ \E r \in net, fraud \in BOOLEAN : BatchSuccess(r, fraud)
    \/ \E r \in net : BatchFailure(r, NetworkError)
    \/ DashboardPoll
    \/ ClearHistoryClick
    \/ \E k \in HookKinds : HookPredict(k, SampleInput(k))
    \/ \E c \in calls, fraud \in BOOLEAN : HookResolve(c, fraud)
    \/ \E c \in calls : HookReject(c, NetworkError)
    \/ HookClearHistory

HistorySpec == Init /\ [][HistoryNext]_vars

\* The same while time passes
TimedHistoryNext == HistoryNext \/ Tick

TimedHistorySpec == Init /\ [][TimedHistoryNext]_vars

\* App mounted in a browser where earlier predictions left no entry or all
\* but one of the entries a store keeps
StoreInit ==
    /\ Mounted
    /\ history \in {<<>>, Earlier(HISTORY_MAX - 1, 0 - 1)}
    /\ hookHistory \in {<<>>, HookEarlier(MAX_HISTORY - 1, 0 - 1)}
    /\ text = <<>>
    /\ pc = "idle"
    /\ ret = NoResult
    /\ isQuotedRow = FALSE

\* What adds to the stored histories and what empties them
StoreNext ==
    \/ \E p \in {"predict", "dashboard"} : Navigate(p)
    \/ PredictSubmit
    \/ \E r \in net : PredictSuccess(r, FALSE)
    \/ ClearHistoryClick
    \/ Tick
    \/ \E k \in HookKinds : HookPredict(k, SampleInput(k))
    \/ \E c \in calls : HookResolve(c, FALSE)
    \/ HookClearHistory

StoreSpec == StoreInit /\ [][StoreNext]_vars

\* A component that uses both hooks
HookNext ==
    \/ \E k \in HookKinds : \E input \in HookInputs(k) : HookPredict(k, input)
    \/ \E c \in calls, fraud \in BOOLEAN : HookResolve(c, fraud)
    \/ \E c \in calls, e \in Errors : HookReject(c, e)
    \/ \E k \in HookKinds : HookReset(k)
    \/ HookClearHistory

HookSpec == Init /\ [][HookNext]_vars

\* Predictions, and the dashboard, with a localStorage that fails
StorageNext ==
    \/ \E p \in {"predict", "dashboard"} : Navigate(p)
    \/ PredictSubmit
    \/ \E r \in net, fraud \in BOOLEAN : PredictSuccess(r, fraud)
    \/ \E r \in net : PredictFailure(r, NetworkError)
    \/ DashboardPoll
    \/ ClearHistoryClick
    \/ \E m \in StorageModes : StorageChange(m)
    \/ \E k \in {HK, HISTORY_KEY} : Corrupt(k)
    \/ HookPredict("single", SampleInput("single"))
    \/ \E c \in calls : HookResolve(c, FALSE)

\* App mounted in a browser where an earlier session left no entry or one
StorageInit ==
    /\ Mounted
    /\ history \in {<<>>, Earlier(1, 0 - 1)}
    /\ hookHistory \in {<<>>, HookEarlier(1, 0 - 1)}
    /\ text = <<>>
    /\ pc = "idle"
    /\ ret = NoResult
    /\ isQuotedRow = FALSE

StorageSpec == StorageInit /\ [][StorageNext]_vars

Next ==
    \/ FileNext \/ BatchNext \/ SubmitNext \/ HealthNext
    \/ TimedHistoryNext \/ StoreNext \/ HookNext \/ StorageNext

Spec == Init /\ [][Next]_vars

\* ------------------------------------------------------------------------
\* Vocabulary of the properties
\* ------------------------------------------------------------------------
Range(f) == {f[i] : i \in DOMAIN f}

Returned == pc = "returned"

\* The lines of the text as written (before any trimming), and the first
\* of them that is not blank, trimmed.
NonBlankIdx(t) == {i \in 1..Len(SplitLines(t)) : Trim(SplitLines(t)[i]) # <<>>}

FirstNonBlankLine(t) ==
    LET i == CHOOSE i \in NonBlankIdx(t) : \A j \in NonBlankIdx(t) : i <= j
    IN  Trim(SplitLines(t)[i])

\* starts with a quote, ends with a quote, no quote in between
QuotedShape(l) ==
    /\ Len(l) >= 1
    /\ l[1] = QUOTE
    /\ l[Len(l)] = QUOTE
    /\ \A i \in 2..(Len(l) - 1) : l[i] # QUOTE

\* The non-blank lines after the header line, as the parser reads them.
DataOf(t) == DataLines(Lines(t))

Blank == JSString(<<>>)

\* ------------------------------------------------------------------------
\* C1: a text that is empty or made of white space and line breaks only
\* fails with "Empty file" and yields no table; a text with a non-blank
\* line does not raise that error.
\* ------------------------------------------------------------------------
AllWhite(t) == \A i \in 1..Len(t) : t[i] \in WhiteSpace

C1_EmptyInput ==
    pc # "call" =>
        /\ AllWhite(text) =>
              /\ pc = "thrown"
              /\ ret.error = "Empty file"
              /\ ~ret.ok /\ ret.headers = <<>> /\ ret.rows = <<>>
        /\ ~AllWhite(text) => pc = "returned" /\ ret.ok /\ ret.error = ""

C1_Witness ==
    /\ pc = "thrown"
    /\ \E i \in 1..Len(text) : text[i] = LF
    /\ \E i \in 1..Len(text) : text[i] = SPACE

\* ------------------------------------------------------------------------
\* C2: the quoted-row path is taken exactly when the first non-blank line,
\* trimmed, starts and ends with a double quote and has no double quote in
\* between; no other line takes part in the decision.
\* ------------------------------------------------------------------------
C2_QuotedRowDetection ==
    Returned => (isQuotedRow <=> QuotedShape(FirstNonBlankLine(text)))

C2_Witness ==
    /\ Returned
    /\ isQuotedRow
    /\ Len(Lines(text)) >= 2
    /\ ~StartsWithQuote(Trim(Lines(text)[2]))

\* ------------------------------------------------------------------------
\* C3: for a text without double quotes, wrapping every non-blank line in
\* one pair of double quotes changes neither the headers nor the rows.
\* ------------------------------------------------------------------------
RECURSIVE JoinLines(_)
JoinLines(ls) ==
    IF ls = <<>> THEN <<>>
    ELSE IF Len(ls) = 1 THEN ls[1]
    ELSE ls[1] \o <<LF>> \o JoinLines(Tail(ls))

WrapLine(l) == IF Trim(l) # <<>> THEN <<QUOTE>> \o l \o <<QUOTE>> ELSE l

Wrap(t) ==
    LET ls == SplitLines(t)
    IN  JoinLines([i \in 1..Len(ls) |-> WrapLine(ls[i])])

C3_WrappedSameTable ==
    (Returned /\ ~IncludesQuote(text)) =>
        LET w == parseCSVBuiltIn(Wrap(text))
        IN  /\ w.ok
            /\ w.headers = ret.headers
            /\ w.rows = ret.rows

C3_Witness ==
    /\ Returned
    /\ ~IncludesQuote(text)
    /\ ~isQuotedRow
    /\ IsQuotedRow(FirstLine(Wrap(text)))
    /\ Len(ret.headers) >= 2
    /\ Len(ret.rows) >= 1
    /\ \E i \in 1..Len(text) : text[i] = SPACE

\* ------------------------------------------------------------------------
\* C4: a data field, trimmed and quote-stripped, is stored as the empty
\* string when empty, as a number exactly when it denotes a valid finite
\* number, and unchanged as a string otherwise (Infinity stays a string).
\* ------------------------------------------------------------------------
DenotesFiniteNumber(raw) == ~IsNaN(raw) /\ Trim(raw) # <<INFINITY>>

FiniteTyped(raw) ==
    IF raw = <<>> THEN Blank
    ELSE IF DenotesFiniteNumber(raw) THEN JSNumber(DecimalValue(Trim(raw)))
    ELSE JSString(raw)

\* Column i of a data line, as the claim types it: the headers are distinct,
\* so a column name stands for one position.
ColumnOf(hs, h) == CHOOSE i \in 1..Len(hs) : hs[i] = h

Distinct(hs) == \A i, j \in 1..Len(hs) : hs[i] = hs[j] => i = j

C4_FiniteNumbersOnly ==
    (Returned /\ Distinct(ret.headers)) =>
        \A r \in Range(ret.rows) :
            \E j \in 1..Len(DataOf(text)) :
                LET vals == Vals(DataOf(text)[j])
                IN  \A h \in DOMAIN r :
                        r[h] = IF ColumnOf(ret.headers, h) <= Len(vals)
                               THEN FiniteTyped(vals[ColumnOf(ret.headers, h)])
                               ELSE Blank

\* ------------------------------------------------------------------------
\* C5: the record of a data line is in rows exactly when one of its values
\* is not the empty string; the all-empty records are dropped and are not
\* counted.
\* ------------------------------------------------------------------------
HasValue(r) == \E k \in DOMAIN r : r[k] # Blank

KeptLines(t, hs) ==
    {j \in 1..Len(DataOf(t)) : HasValue(Record(hs, DataOf(t)[j]))}

C5_BlankRecordsDropped ==
    Returned =>
        /\ Len(ret.rows) = Cardinality(KeptLines(text, ret.headers))
        /\ \A j \in 1..Len(DataOf(text)) :
              (j \in KeptLines(text, ret.headers))
                 <=> (Record(ret.headers, DataOf(text)[j]) \in Range(ret.rows))

C5_Witness ==
    /\ Returned
    /\ Len(DataOf(text)) = 2
    /\ Len(ret.rows) = 1

\* ------------------------------------------------------------------------
\* C6 (as stated): an input with a non-blank line after the header line
\* yields a non-empty rows; rows is empty only without such a line.
\* ------------------------------------------------------------------------
C6_DataLineGivesRow ==
    Returned => (Cardinality(NonBlankIdx(text)) >= 2 => ret.rows # <<>>)

\* Field i of the data line counts for the record when no later header
\* repeats the name of column i.
LastOfItsName(hs, i) == \A i2 \in (i + 1)..Len(hs) : hs[i2] # hs[i]

HasFilledColumn(hs, line) ==
    \E i \in 1..Len(hs) :
        /\ i <= Len(Vals(line))
        /\ Vals(line)[i] # <<>>
        /\ LastOfItsName(hs, i)

\* C6 (amended): rows is non-empty exactly when some non-blank line after
\* the header line has a non-empty field in a header column; with no data
\* line, or with data lines of empty fields only, rows is empty.
C6_FilledDataLineGivesRow ==
    Returned =>
        /\ (ret.rows # <<>>) <=>
              (\E j \in 1..Len(DataOf(text)) :
                    HasFilledColumn(ret.headers, DataOf(text)[j]))
        /\ Cardinality(NonBlankIdx(text)) <= 1 => ret.rows = <<>>

C6_Witness ==
    /\ Returned
    /\ Cardinality(NonBlankIdx(text)) = 2
    /\ ret.rows = <<>>

\* ------------------------------------------------------------------------
\* C7: on the standard path a field loses its leading and trailing double
\* quote only when it has both; a field with a double quote at one end only
\* is left as it is.
\* ------------------------------------------------------------------------
StripPair(s) ==
    IF StartsWithQuote(s) /\ EndsWithQuote(s) THEN Slice1(s) ELSE s

PairFields(line) ==
    LET f == SplitComma(line)
    IN  [i \in 1..Len(f) |-> StripPair(Trim(f[i]))]

C7_QuotesStrippedInPairs ==
    (Returned /\ ~isQuotedRow) =>
        /\ ret.headers = PairFields(FirstNonBlankLine(text))
        /\ Distinct(ret.headers) =>
              \A r \in Range(ret.rows) :
                  \E j \in 1..Len(DataOf(text)) :
                      LET vals == PairFields(DataOf(text)[j])
                      IN  \A h \in DOMAIN r :
                              r[h] = IF ColumnOf(ret.headers, h) <= Len(vals)
                                     THEN TypedValue(vals[ColumnOf(ret.headers, h)])
                                     ELSE Blank

\* ------------------------------------------------------------------------
\* C8: the keys of every record in rows are exactly the header names,
\* whatever the number of fields on its data line.
\* ------------------------------------------------------------------------
C8_RecordKeysAreHeaders ==
    Returned => \A i \in 1..Len(ret.rows) :
                    DOMAIN ret.rows[i] = Range(ret.headers)

C8_Witness ==
    /\ Returned
    /\ Len(ret.headers) = 2
    /\ Distinct(ret.headers)
    /\ Len(DataOf(text)) = 1
    /\ Len(Vals(DataOf(text)[1])) = 1
    /\ Len(ret.rows) = 1

\* ------------------------------------------------------------------------
\* C9: with n distinct headers and a data line of k fields, column i below
\* min(k, n) holds the typed value of field i, columns k..n-1 hold the empty
\* string, and fields n..k-1 change nothing: they do not keep a record that
\* is blank in its n columns.
\* ------------------------------------------------------------------------
Min(a, b) == IF a <= b THEN a ELSE b

Expected(hs, line) ==
    [h \in Range(hs) |->
        IF ColumnOf(hs, h) <= Len(Vals(line))
        THEN TypedValue(Vals(line)[ColumnOf(hs, h)])
        ELSE Blank]

FilledWithin(hs, line) ==
    \E i \in 1..Min(Len(hs), Len(Vals(line))) : Vals(line)[i] # <<>>

C9_ShortAndLongLines ==
    (Returned /\ Distinct(ret.headers)) =>
        LET hs == ret.headers
            dl == DataOf(text)
        IN  /\ \A r \in Range(ret.rows) :
                   \E j \in 1..Len(dl) : r = Expected(hs, dl[j])
            /\ \A j \in 1..Len(dl) :
                   FilledWithin(hs, dl[j]) => Expected(hs, dl[j]) \in Range(ret.rows)
            /\ Len(ret.rows) =
                   Cardinality({j \in 1..Len(dl) : FilledWithin(hs, dl[j])})

\* a line with fewer fields than headers was kept
C9_Witness ==
    /\ Returned
    /\ Distinct(ret.headers)
    /\ Len(ret.headers) = 2
    /\ Len(ret.rows) = 1
    /\ Len(Vals(DataOf(text)[1])) = 1
    /\ ret.rows[1][ret.headers[2]] = Blank

\* ------------------------------------------------------------------------
\* C10: headers holds the fields of the header line in their order, one per
\* field with duplicates kept, and rows holds the kept records in the order
\* of their data lines.
\* ------------------------------------------------------------------------
CommaCount(l) == Cardinality({i \in 1..Len(l) : l[i] = COMMA})

\* What is left of a field without its white space and double quotes.
RECURSIVE Core(_)
Core(s) ==
    IF s = <<>> THEN <<>>
    ELSE IF Head(s) \in WhiteSpace \cup {QUOTE} THEN Core(Tail(s))
    ELSE <<Head(s)>> \o Core(Tail(s))

Increasing(f) == \A a, b \in DOMAIN f : a < b => f[a] < f[b]

C10_SourceOrder ==
    Returned =>
        LET hl == FirstNonBlankLine(text)
            dl == DataOf(text)
            n == Len(ret.rows)
        IN  /\ Len(ret.headers) = CommaCount(hl) + 1
            /\ \A i \in 1..Len(ret.headers) :
                   Core(ret.headers[i]) = Core(SplitComma(hl)[i])
            /\ \E f \in [1..n -> 1..Len(dl)] :
                   /\ Increasing(f)
                   /\ \A i \in 1..n : ret.rows[i] = Record(ret.headers, dl[f[i]])
                   /\ \A j \in 1..Len(dl) :
                          HasValue(Record(ret.headers, dl[j]))
                              => \E i \in 1..n : f[i] = j

C10_Witness ==
    /\ Returned
    /\ Len(DataOf(text)) = 2
    /\ Len(ret.rows) = 2
    /\ ret.rows[1] # ret.rows[2]
    /\ ret.rows[1] = Record(ret.headers, DataOf(text)[1])

\* ------------------------------------------------------------------------
\* Vocabulary of the properties of handleFile
\* ------------------------------------------------------------------------
\* The step in which the invocation of handleFile in slot i ends.
Resumed(i) == reads[i].busy /\ ~reads'[i].busy /\ page' = page

\* PapaParse found every required column and at least one row, so that
\* handleFile never reaches the built-in parser.
PapaAccepts(t) ==
    HasCols(PapaParse(t).fields) /\ Len(PapaParse(t).data) > 0

\* The header and the rows of the parser handleFile relies on for t.
HeaderInUse(t) ==
    IF PapaAccepts(t) THEN PapaParse(t).fields ELSE parseCSVBuiltIn(t).headers

RowsInUse(t) ==
    IF PapaAccepts(t) THEN PapaParse(t).data ELSE parseCSVBuiltIn(t).rows

\* The required columns the header of t lacks.
Absent(t) == Range(REQ_COLS) \ Range(parseCSVBuiltIn(t).headers)

\* The number of data lines of t with a field that is not empty.
SurvivorCount(t) ==
    IF Lines(t) = <<>> THEN 0
    ELSE Cardinality(KeptLines(t, parseCSVBuiltIn(t).headers))

\* What the properties ask about a text, and the answers for the texts of
\* the catalogue.
FactsAbout(t) ==
    [papa |-> PapaAccepts(t),
     ok |-> parseCSVBuiltIn(t).ok,
     headers |-> parseCSVBuiltIn(t).headers,
     absent |-> Absent(t),
     survivors |-> SurvivorCount(t),
     allCols |-> HasCols(HeaderInUse(t)),
     rows |-> RowsInUse(t)]

FileFacts == {[file |-> f, facts |-> FactsAbout(FileText(f))] : f \in Files}

\* The facts about the text the invocation in slot i read.
Facts(i) == (CHOOSE x \in FileFacts : x.file = reads[i].file).facts

\* The invocation sets no rows and no success message.
LoadsNothing == rows' = rows /\ parseInfo' = parseInfo

\* The invocation loads exactly these rows.
Loads(data) ==
    /\ rows' = data
    /\ parseInfo'.kind = "rows loaded"
    /\ parseInfo'.n = Len(data)
    /\ parseErr' = parseErr

AllIdle == \A i \in 1..MaxReads : ~reads[i].busy

\* ------------------------------------------------------------------------
\* C12: when handleFile reaches the built-in parser, the parse succeeds
\* and the header lacks a required column, the error names exactly the
\* required columns the header lacks, each once, and lists the header as
\* found, and no rows are loaded; when no required column is missing the
\* invocation does not report the missing-columns error.
\* ------------------------------------------------------------------------
C12_MissingColumnsReported ==
    [][\A i \in 1..MaxReads :
          Resumed(i) =>
             LET t == Facts(i)
             IN  /\ (~t.papa /\ t.ok /\ t.absent # {}) =>
                       /\ parseErr'.kind = "Missing columns"
                       /\ Range(parseErr'.missing) = t.absent
                       /\ Len(parseErr'.missing) = Cardinality(t.absent)
                       /\ parseErr'.found = t.headers
                       /\ LoadsNothing
                 /\ (t.ok /\ t.absent = {}) =>
                       \/ parseErr' = parseErr
                       \/ parseErr'.kind # "Missing columns"]_vars

C12_Witness ==
    /\ AllIdle
    /\ fileName.hdr = "some"
    /\ parseErr = MissingMsg(<< <<"type">>, <<"amount">> >>, SomeCols)
    /\ rows = <<>>
    /\ parseInfo = NoMsg

C14_LimitCountsSurvivors ==
    [][\A i \in 1..MaxReads :
          (/\ Resumed(i)
           /\ Facts(i).ok
           /\ Facts(i).absent = {}
           /\ Facts(i).survivors <= RowLimit) =>
             parseErr' # MaxRowsMsg]_vars

\* ------------------------------------------------------------------------
\* C15: when the header holds every required column and no data line has
\* a non-empty field, handleFile reports "No data rows found." and sets no
\* rows; and no load ever reports zero rows.
\* ------------------------------------------------------------------------
C15_NoDataRowsReported ==
    [][\A i \in 1..MaxReads :
          Resumed(i) =>
             /\ (/\ Facts(i).ok
                 /\ Facts(i).absent = {}
                 /\ Facts(i).survivors = 0) =>
                    parseErr' = NoDataMsg /\ LoadsNothing
             /\ ~(parseInfo'.kind = "rows loaded" /\ parseInfo'.n = 0)]_vars

\* ------------------------------------------------------------------------
\* C16: when an invocation of handleFile that no other invocation
\* overlaps ends in a parse error, the error is one of handleFile's, the
\* rows are empty and no success message is set.
\* ------------------------------------------------------------------------
ParseErrorKinds ==
    {"Parse error", "Missing columns", "Max rows allowed.", "No data rows found."}

C16_FailedLoadLeavesNoRows ==
    [][\A i \in 1..MaxReads :
          (Resumed(i) /\ reads[i].lone /\ parseErr' # NoMsg) =>
             /\ parseErr'.kind \in ParseErrorKinds
             /\ rows' = <<>>
             /\ parseInfo' = NoMsg]_vars

C16_Witness ==
    /\ AllIdle
    /\ fileName = EmptyFile
    /\ parseErr = ParseErrorMsg("Empty file")
    /\ rows = <<>>
    /\ parseInfo = NoMsg

\* ------------------------------------------------------------------------
\* Vocabulary of the properties of the prediction requests
\* ------------------------------------------------------------------------
\* Rows are loaded only by an invocation of handleFile ending, and are
\* then the rows its parser returned under a header with every required
\* column.
RowsFromOneParse ==
    (rows' # rows /\ rows' # <<>>) =>
        \E i \in 1..MaxReads :
            /\ Resumed(i)
            /\ Facts(i).allCols
            /\ rows' = Facts(i).rows

\* The batch requests not yet answered, and those of them the page shown
\* has sent.
BatchRequests == {r \in net : r.kind = "batch"}
LiveBatchRequests == {r \in BatchRequests : r.live}

\* The requests sent in this step.
Issued == {r \in net' \ net : r.live}

\* The step in which the page shown learns that its request r failed.
FailedStep(r) ==
    /\ r \in net
    /\ r.live
    /\ net' = net \ {r}
    /\ history' = history

\* ------------------------------------------------------------------------
\* C17 as stated: the loaded rows are at most the limit and come from
\* one parse with all required columns; a batch request is sent only
\* while rows is non-empty and no batch request at all awaits its answer,
\* and it carries the loaded rows in order.
\* ------------------------------------------------------------------------
C17_NoRequestOutstanding ==
    /\ [](Len(rows) <= RowLimit)
    /\ [][RowsFromOneParse]_vars
    /\ [][\A r \in Issued :
             /\ rows # <<>>
             /\ BatchRequests = {}
             /\ r.transactions = rows]_vars

\* ------------------------------------------------------------------------
\* C17: the loaded rows are at most the limit and come from one parse
\* with all required columns; the page shown has at most one batch request
\* awaiting its answer, and it sends one only while rows is non-empty and
\* no request of its own awaits its answer; the request carries the loaded
\* rows in order.
\* ------------------------------------------------------------------------
C17_RequestsCarryLoadedRows ==
    /\ [](Len(rows) <= RowLimit /\ Cardinality(LiveBatchRequests) <= 1)
    /\ [][RowsFromOneParse]_vars
    /\ [][\A r \in Issued :
             /\ rows # <<>>
             /\ LiveBatchRequests = {}
             /\ r.transactions = rows]_vars

C17_Witness ==
    /\ page = "batch"
    /\ batchLoading
    /\ Len(rows) = RowLimit
    /\ \E r \in LiveBatchRequests, q \in BatchRequests :
          ~q.live /\ r.transactions = rows

\* ------------------------------------------------------------------------
\* C18: the requests sent equal the submits of the user, one request per
\* submit; the step in which a page learns that its request failed sends
\* no request and leaves the page with loading false, no result and an
\* error message that is not empty.
\* ------------------------------------------------------------------------
C18_OneRequestPerSubmit ==
    /\ [](sent = clicks)
    /\ [][(sent' # sent \/ clicks' # clicks) =>
             /\ sent' = sent + 1
             /\ clicks' = clicks + 1
             /\ Cardinality(Issued) = 1]_vars
    /\ [][\A r \in net :
             FailedStep(r) =>
                /\ sent' = sent
                /\ Issued = {}
                /\ IF r.kind = "single"
                   THEN /\ ~predLoading'
                        /\ predResult' = NoResponse
                        /\ predError' # ""
                   ELSE /\ ~batchLoading'
                        /\ batchResult' = NoResponse
                        /\ batchError' # ""]_vars

C18_Witness ==
    /\ page = "predict"
    /\ sent = 2
    /\ clicks = 2
    /\ rejected # NoError
    /\ ~predLoading
    /\ predResult = NoResponse
    /\ predError # ""
    /\ net = {}

\* ------------------------------------------------------------------------
\* C19 as stated: the message shown for a failed call is the detail of
\* the answer when it has one, and the fixed fallback of the call in every
\* other case.
\* ------------------------------------------------------------------------
Shown(r) == IF r.kind = "single" THEN predError' ELSE batchError'

Fallback(r) ==
    IF r.kind = "single" THEN "Prediction failed" ELSE "Batch prediction failed"

C19_DetailOrFallback ==
    [][\A r \in net :
          FailedStep(r) =>
             Shown(r) = IF rejected'.detail # "" THEN rejected'.detail
                        ELSE Fallback(r)]_vars

\* ------------------------------------------------------------------------
\* C19: the message the pages show for a failed call is the detail of the
\* answer when it has one, else the message of the error when it has one
\* (as for a network failure or a timeout), and the fixed fallback of the
\* call only when it has neither; the hooks show the detail when there is
\* one and else their own fixed fallback.
\* ------------------------------------------------------------------------
C19_DetailMessageOrFallback ==
    [][\A r \in net :
          FailedStep(r) =>
             LET e == rejected'
             IN  /\ Shown(r) = IF e.detail # "" THEN e.detail
                               ELSE IF e.message # "" THEN e.message
                               ELSE Fallback(r)
                 /\ HookPredictMessage(e) =
                       IF e.detail # "" THEN e.detail
                       ELSE "Prediction failed. Please try again."
                 /\ HookBatchMessage(e) =
                       IF e.detail # "" THEN e.detail
                       ELSE "Batch prediction failed."]_vars

C19_Witness ==
    /\ page = "batch"
    /\ ~batchLoading
    /\ rejected.detail = ""
    /\ rejected.message = "Network Error"
    /\ batchError = "Network Error"

\* ------------------------------------------------------------------------
\* C20: a health check is sent when the app mounts; a check that fails or
\* gets no answer sets the status offline and changes neither the page,
\* the form, the loaded rows nor the history; a check that succeeds sets
\* the status online; the interval timer is never stopped; and if from
\* some point on the service answers, the status becomes online and stays
\* so.
\* ------------------------------------------------------------------------
CheckAnswered == checks' = checks - 1

C20_HealthPolling ==
    /\ checks = 1
    /\ [][CheckAnswered =>
             /\ ~apiUp => /\ health' = ""
                          /\ UNCHANGED <<page, form, rows, history>>
             /\ apiUp => health' = "healthy"]_vars
    /\ [](checks < MaxChecks => ENABLED PollTick)
    /\ (<>[]apiUp) => <>[](health = "healthy")

C20_Witness ==
    /\ ~apiUp
    /\ checks = 0
    /\ health = ""
    /\ page = "batch"
    /\ rows # <<>>
    /\ history # <<>>


\* ------------------------------------------------------------------------
\* Vocabulary of the properties of the stored histories
\* ------------------------------------------------------------------------
\* The entries of h are ordered from the newest to the oldest.
NewestFirst(h) == \A i \in 1..(Len(h) - 1) : h[i].id >= h[i + 1].id

\* h2 is h after k additions made now: the k new entries come first, the
\* entries of h follow in their order, and of the whole the first `max`
\* are kept, so that the oldest entries are the ones that leave.
AddedTo(h, h2, k, max) ==
    /\ Len(h2) = Min(Len(h) + k, max)
    /\ \A i \in 1..Len(h2) :
          IF i <= k THEN h2[i].id = now ELSE h2[i] = h[i - k]

\* A step changes the store from h to h2 only by a clear or by additions.
ClearedOrAdded(h, h2, max) ==
    h2 # h => \/ h2 = <<>>
              \/ \E k \in 1..RowLimit : AddedTo(h, h2, k, max)

\* ------------------------------------------------------------------------
\* C21: the stored history of the pages holds at most 500 entries and that
\* of the hooks at most 200, each ordered newest first; a step changes a
\* stored history only by emptying it or by putting new entries in front of
\* the entries it held, so that it holds the most recent additions since it
\* was last cleared, and an addition to a full history drops exactly its
\* oldest entry.
\* ------------------------------------------------------------------------
C21_BoundedNewestFirst ==
    /\ [](/\ Len(history) <= HISTORY_MAX
          /\ Len(hookHistory) <= MAX_HISTORY
          /\ NewestFirst(history)
          /\ NewestFirst(hookHistory))
    /\ [][/\ ClearedOrAdded(history, history', HISTORY_MAX)
          /\ ClearedOrAdded(hookHistory, hookHistory', MAX_HISTORY)
          /\ (Len(history) = HISTORY_MAX /\ Len(history') = HISTORY_MAX
                 /\ history' # history /\ history'[2] = history[1]) =>
                history' = <<history'[1]>> \o SubSeq(history, 1, HISTORY_MAX - 1)]_vars

\* The store of the pages was full when a prediction was added and has
\* dropped its oldest entry.
C21_Witness ==
    /\ Len(history) = HISTORY_MAX
    /\ history[1].id >= 0
    /\ history[2].id >= 0
    /\ history[HISTORY_MAX].id = 2 - HISTORY_MAX


\* ------------------------------------------------------------------------
\* C22: with localStorage working, every successful single prediction puts
\* exactly one entry in front of the stored history, with the verdict of
\* the response and the type and amount the form had when it was
\* submitted, whatever the form holds when the response arrives; every
\* successful batch puts in front of it exactly one entry per element of
\* the results of the response, with the verdict of that element.
\* ------------------------------------------------------------------------
C22_SuccessesAreRecorded ==
    [][/\ \A r \in net, fraud \in BOOLEAN :
             PredictSuccess(r, fraud) =>
                history' = Take(<<[is_fraud |-> fraud, type |-> r.tx.type,
                                   amount |-> r.tx.amount, id |-> now]>>
                                \o history, HISTORY_MAX)
       /\ \A r \in net, fraud \in BOOLEAN :
             BatchSuccess(r, fraud) =>
                LET results == BatchResponse(Len(r.transactions), fraud).results
                    n == Len(results)
                IN  /\ Len(history') = Min(Len(history) + n, HISTORY_MAX)
                    /\ \A i \in 1..Len(history') :
                          IF i <= n
                          THEN history'[i].is_fraud = results[n + 1 - i].is_fraud
                          ELSE history'[i] = history[i - n]]_vars

\* A batch of two and then a prediction were recorded, the prediction with
\* the preset that was submitted and not the one loaded while it was in
\* flight.
C22_Witness ==
    /\ Len(history) = 3
    /\ history[1].type = "CASH_OUT"
    /\ history[1].amount = 500000
    /\ history[2].type = ""
    /\ form = [type |-> "TRANSFER", amount |-> 181]
    /\ predResult # NoResponse


\* ------------------------------------------------------------------------
\* C23: a prediction call that fails, single or batch, of a page or of a
\* hook, leaves both stored histories as they were.
\* ------------------------------------------------------------------------
C23_FailureKeepsHistory ==
    [][\A e \in Errors :
          (\/ \E r \in net : PredictFailure(r, e) \/ BatchFailure(r, e)
           \/ \E c \in calls : HookReject(c, e)) =>
             /\ history' = history
             /\ hookHistory' = hookHistory
             /\ corrupt' = corrupt]_vars

\* A prediction was recorded and the next one failed.
C23_Witness ==
    /\ Len(history) = 1
    /\ predError = "Network Error"
    /\ predResult = NoResponse
    /\ ~predLoading
    /\ net = {}


\* ------------------------------------------------------------------------
\* C24: in every state of PredictPage the card is flipped only while a
\* result is present.
\* ------------------------------------------------------------------------
C24_FlippedOnlyWithResult == flipped => predResult # NoResponse


\* ------------------------------------------------------------------------
\* C25: once every invocation of handleFile has completed, the loaded rows
\* are the rows parsed from the file whose name is displayed.
\* ------------------------------------------------------------------------
C25_RowsOfDisplayedFile ==
    (AllIdle /\ rows # <<>>) =>
       /\ fileName # NoFile
       /\ rows = (CHOOSE x \in FileFacts : x.file = fileName).facts.rows


\* ------------------------------------------------------------------------
\* C26: in every state of BatchPage a parse-success message implies that
\* rows is not empty and holds the number of rows the message states, and
\* the parse-error and the parse-success message are never both present.
\* ------------------------------------------------------------------------
C26_MessagesMatchRows ==
    /\ parseInfo # NoMsg => (rows # <<>> /\ Len(rows) = parseInfo.n)
    /\ ~(parseErr # NoMsg /\ parseInfo # NoMsg)


\* ------------------------------------------------------------------------
\* C27: for each hook, loading is true exactly while a predict call of it
\* awaits the service, and when none does at most one of result and error
\* is set.
\* ------------------------------------------------------------------------
C27_LoadingWhileOutstanding ==
    \A k \in HookKinds :
       /\ hook[k].loading <=> \E c \in calls : c.kind = k
       /\ (\A c \in calls : c.kind # k) =>
             ~(hook[k].result # NoResponse /\ hook[k].error # "")

\* ------------------------------------------------------------------------
\* C28: a predict call of a hook that no other call of the hook overlaps
\* never rejects; when the service answers it resolves with the data of the
\* answer and leaves result set to them and error null, when the request
\* fails it resolves with undefined and leaves error set and result null;
\* either way loading is false when it completes.
\* ------------------------------------------------------------------------
C28_SingleCallSettles ==
    [][\A c \in calls :
          c.lone =>
             /\ \A fraud \in BOOLEAN :
                   HookResolve(c, fraud) =>
                      LET data == IF c.kind = "single" THEN SingleResponse(fraud)
                                  ELSE BatchResponse(Len(c.input), fraud)
                      IN  /\ settled' = [id |-> c.id, how |-> "resolved",
                                         defined |-> TRUE, data |-> data]
                          /\ hook'[c.kind] =
                                [result |-> data, loading |-> FALSE, error |-> ""]
             /\ \A e \in Errors :
                   HookReject(c, e) =>
                      /\ settled'.id = c.id
                      /\ settled'.how = "resolved"
                      /\ ~settled'.defined
                      /\ ~hook'[c.kind].loading
                      /\ hook'[c.kind].result = NoResponse
                      /\ hook'[c.kind].error # ""]_vars

\* A call of useBatchPredict made alone has failed and resolved with
\* undefined, after a call of useFraudPredict that succeeded.
C28_Witness ==
    /\ calls = {}
    /\ settled.how = "resolved"
    /\ ~settled.defined
    /\ hook["batch"].error = "Batch prediction failed."
    /\ hook["batch"].result = NoResponse
    /\ hook["single"].result # NoResponse
    /\ hook["single"].error = ""


\* ------------------------------------------------------------------------
\* Vocabulary of the properties of a failing localStorage
\* ------------------------------------------------------------------------
\* The entry a successful prediction for request r adds
EntryOf(r, fraud) ==
    [is_fraud |-> fraud, type |-> r.tx.type, amount |-> r.tx.amount, id |-> now]

\* The dashboard reads the stored history in this step.
DashboardLoads == DashboardPoll \/ Navigate("dashboard")

\* The page shows the result of the prediction and no error.
ResultShown(fraud) ==
    /\ predResult' = SingleResponse(fraud)
    /\ predError' = ""
    /\ ~predLoading'

\* ------------------------------------------------------------------------
\* C29 as stated: when localStorage throws or holds unparseable JSON under
\* the history key, loadHistory returns an empty list and a successful
\* prediction ends with its result shown and no error; the next addition
\* that is stored, after one that was not or over an unparseable value,
\* stores a history of just the new entry.
\* ------------------------------------------------------------------------
C29_NextWriteStoresOneEntry ==
    [][/\ (DashboardLoads /\ (storage = "unavailable" \/ HK \in corrupt)) =>
             dashHistory' = <<>>
       /\ \A r \in net, fraud \in BOOLEAN :
             PredictSuccess(r, fraud) =>
                /\ r.live => ResultShown(fraud)
                /\ (storage = "ok" /\ (HK \in missed \/ HK \in corrupt)) =>
                      history' = <<EntryOf(r, fraud)>>]_vars

\* ------------------------------------------------------------------------
\* C29: when localStorage throws on access or holds unparseable JSON under
\* the history key, loadHistory returns an empty list; a successful
\* prediction ends with its result shown and no error whatever the state
\* of localStorage; while setItem throws the stored value is left as it
\* was; the next addition that is stored puts its entry in front of the
\* stored history, or stores just its entry when the stored value is
\* unparseable. The same holds of saveToHistory in the hooks.
\* ------------------------------------------------------------------------
C29_FaultsKeepStoredHistory ==
    [][/\ (DashboardLoads /\ (storage = "unavailable" \/ HK \in corrupt)) =>
             dashHistory' = <<>>
       /\ \A r \in net, fraud \in BOOLEAN :
             PredictSuccess(r, fraud) =>
                /\ r.live => ResultShown(fraud)
                /\ history' =
                      IF storage # "ok" THEN history
                      ELSE IF HK \in corrupt THEN <<EntryOf(r, fraud)>>
                      ELSE Take(<<EntryOf(r, fraud)>> \o history, HISTORY_MAX)
                /\ corrupt' = IF storage = "ok" THEN corrupt \ {HK} ELSE corrupt
       /\ \A c \in calls :
             HookResolve(c, FALSE) =>
                /\ hook'[c.kind].result # NoResponse
                /\ hook'[c.kind].error = hook[c.kind].error
                /\ settled'.how = "resolved"
                /\ storage # "ok" =>
                      hookHistory' = hookHistory /\ corrupt' = corrupt
                /\ (storage = "ok" /\ HISTORY_KEY \in corrupt) =>
                      Len(hookHistory') = 1 /\ HISTORY_KEY \notin corrupt'
                /\ (storage = "ok" /\ HISTORY_KEY \notin corrupt) =>
                      Len(hookHistory') = Len(hookHistory) + 1]_vars

\* The result of a prediction is shown without an error although its entry
\* could not be stored, and the entry of the earlier session is still
\* there.
C29_Witness ==
    /\ storage = "quota"
    /\ HK \in missed
    /\ predResult # NoResponse
    /\ predError = ""
    /\ ~predLoading
    /\ history = Earlier(1, 0 - 1)


\* ------------------------------------------------------------------------
\* C30: every entry of the stored history has an id that no other entry
\* of it has.
\* ------------------------------------------------------------------------
C30_DistinctIds ==
    \A i, j \in 1..Len(history) : history[i].id = history[j].id => i = j

====
